---- MODULE Spec2Model ----
(***************************************************************************)
(* A model of the Bella tree-walking interpreter (src/bella.ts).           *)
(*                                                                         *)
(* The interpreter keeps one module-level Map, `memory`, and evaluates an  *)
(* AST by calling interpret() on its nodes.  The AST is modelled by        *)
(* records whose "type" field is the class name; runtime values by records *)
(* whose "t" field is the JavaScript kind of the value.  The host          *)
(* language's operators (-, +, ===, <, &&, ...) are applied by the source  *)
(* to values of any kind, so they are modelled with the coercions          *)
(* JavaScript performs (ToNumber, ToString, ToPrimitive, ToBoolean).       *)
(*                                                                         *)
(* Numbers are IEEE doubles in the source.  They are modelled as extended  *)
(* signed rationals s * n / d: d = 0 /\ n = 1 is an infinity, d = 0 /\     *)
(* n = 0 is NaN, and n = 0 /\ s = -1 is the negative zero.  The programs   *)
(* explored below only divide by 0 and by 2, so every number that arises   *)
(* is a small dyadic rational, on which double arithmetic is exact.        *)
(***************************************************************************)
EXTENDS Integers, Sequences, FiniteSets

-----------------------------------------------------------------------------
(* Bounds of the exploration.                                              *)

\* interpret() is invoked at most MaxRuns times in one process
MaxRuns == 2
\* the counting loop of the programs explored runs to at most MaxN
MaxN == 3
\* the factorial program is called with arguments 0 .. MaxK
MaxK == 3
\* digits printed after the decimal point of a number
MaxFracDigits == 16

-----------------------------------------------------------------------------
(* Runtime values: type Value, bella.ts 9-14, and what the host adds.      *)

\* The one element of a singleton set.  { F(x) : x \in {e} } evaluates e once
\* and hands F its value, as a call by value does.
The(S) == CHOOSE x \in S : TRUE

Abs(i) == IF i < 0 THEN -i ELSE i

Sign(i) == IF i < 0 THEN -1 ELSE 1

RECURSIVE GCD(_, _)
GCD(a, b) == IF b = 0 THEN a ELSE The({ GCD(b, m) : m \in {a % b} })

NaN == [t |-> "number", s |-> 1, n |-> 0, d |-> 0]

Infinity(sg) == [t |-> "number", s |-> sg, n |-> 1, d |-> 0]

\* the double s * n / d, in lowest terms
Norm(sg, n, d) ==
  IF d = 0 THEN (IF n = 0 THEN NaN ELSE Infinity(sg))
  ELSE IF n = 0 THEN [t |-> "number", s |-> sg, n |-> 0, d |-> 1]
  ELSE The({ [t |-> "number", s |-> sg, n |-> n \div g, d |-> d \div g]
             : g \in {GCD(n, d)} })

\* the double of an integer
Num(i) == Norm(Sign(i), Abs(i), 1)

Bool(b) == [t |-> "boolean", b |-> b]

Undefined == [t |-> "undefined"]

\* a string, as the sequence of its characters
Str(cs) == [t |-> "string", chars |-> cs]

\* an array object: ref is its identity, elems its elements
Arr(ref, es) == [t |-> "array", ref |-> ref, elems |-> es]

\* an AST node used as a value (it has no identity of its own in the model:
\* two nodes are the same object iff they are the same tree)
Obj(node) == [t |-> "object", node |-> node]

IsNaN(a) == a.d = 0 /\ a.n = 0

IsInf(a) == a.d = 0 /\ a.n = 1

IsZero(a) == a.d # 0 /\ a.n = 0

IsNumber(v) == v.t = "number"

IsBoolean(v) == v.t = "boolean"

-----------------------------------------------------------------------------
(* Double arithmetic.                                                      *)

Neg(a) == IF IsNaN(a) THEN NaN ELSE [a EXCEPT !.s = -a.s]

Add(a, b) ==
  IF IsNaN(a) \/ IsNaN(b) THEN NaN
  ELSE IF IsInf(a) THEN (IF IsInf(b) /\ a.s # b.s THEN NaN ELSE a)
  ELSE IF IsInf(b) THEN b
  ELSE The({ IF sum = 0
             THEN Norm(IF a.s = -1 /\ b.s = -1 THEN -1 ELSE 1, 0, 1)
             ELSE Norm(Sign(sum), Abs(sum), a.d * b.d)
             : sum \in {a.s * a.n * b.d + b.s * b.n * a.d} })

Sub(a, b) == The({ Add(a, nb) : nb \in {Neg(b)} })

Mul(a, b) ==
  IF IsNaN(a) \/ IsNaN(b) THEN NaN
  ELSE The({ Norm(a.s * b.s, n, d) : n \in {a.n * b.n}, d \in {a.d * b.d} })

Div(a, b) ==
  IF IsNaN(a) \/ IsNaN(b) THEN NaN
  ELSE The({ Norm(a.s * b.s, n, d) : n \in {a.n * b.d}, d \in {a.d * b.n} })

Mod(a, b) ==
  IF IsNaN(a) \/ IsNaN(b) \/ IsInf(a) \/ IsZero(b) THEN NaN
  ELSE IF IsInf(b) \/ IsZero(a) THEN a
  ELSE The({ Norm(a.s, n, d) : n \in {(a.n * b.d) % (b.n * a.d)}, d \in {a.d * b.d} })

\* a < b on doubles (false when either is NaN)
Less(a, b) ==
  /\ ~IsNaN(a)
  /\ ~IsNaN(b)
  /\ IF IsInf(a) THEN a.s = -1 /\ ~(IsInf(b) /\ b.s = -1)
     ELSE IF IsInf(b) THEN b.s = 1
     ELSE a.s * a.n * b.d < b.s * b.n * a.d

NumEq(a, b) == ~IsNaN(a) /\ ~IsNaN(b) /\ ~Less(a, b) /\ ~Less(b, a)

-----------------------------------------------------------------------------
(* Strings and the host's conversions between kinds of value.  The source  *)
(* never builds a string itself: strings arise when `left + right` is      *)
(* applied to an array or an AST object (bella.ts 147).                    *)

DigitChars == <<"0", "1", "2", "3", "4", "5", "6", "7", "8", "9">>

\* the characters the strings of this model contain, in code-unit order
CharOrder ==
  <<" ", "+", ",", "-", ".">> \o DigitChars \o
  <<"I", "N", "O", "[", "]", "a", "b", "c", "d", "e", "f", "i", "j", "l",
    "n", "o", "r", "s", "t", "u", "y">>

CharRank(c) == CHOOSE k \in 1..Len(CharOrder) : CharOrder[k] = c

DigitVal(c) == CHOOSE k \in 0..9 : DigitChars[k + 1] = c

IsDigit(c) == \E k \in 1..10 : DigitChars[k] = c

NaNChars == <<"N", "a", "N">>

InfinityChars == <<"I", "n", "f", "i", "n", "i", "t", "y">>

ObjectChars ==
  <<"[", "o", "b", "j", "e", "c", "t", " ", "O", "b", "j", "e", "c", "t", "]">>

UndefinedChars == <<"u", "n", "d", "e", "f", "i", "n", "e", "d">>

TrueChars == <<"t", "r", "u", "e">>

FalseChars == <<"f", "a", "l", "s", "e">>

RECURSIVE NatToChars(_)
NatToChars(n) ==
  IF n < 10 THEN <<DigitChars[n + 1]>>
  ELSE The({ NatToChars(q) : q \in {n \div 10} }) \o <<DigitChars[(n % 10) + 1]>>

\* the decimal digits of r / d, for 0 <= r < d, at most k of them
RECURSIVE FracChars(_, _, _)
FracChars(r, d, k) ==
  IF r = 0 \/ k = 0 THEN <<>>
  ELSE <<DigitChars[((r * 10) \div d) + 1]>> \o
       The({ FracChars(m, d, j) : m \in {(r * 10) % d}, j \in {k - 1} })

\* Number::toString, for the magnitudes printed without an exponent
NumberToString(a) ==
  IF IsNaN(a) THEN NaNChars
  ELSE IF IsZero(a) THEN <<"0">>
  ELSE (IF a.s = -1 THEN <<"-">> ELSE <<>>) \o
       (IF IsInf(a) THEN InfinityChars
        ELSE NatToChars(a.n \div a.d) \o
             (IF a.n % a.d = 0 THEN <<>>
              ELSE <<".">> \o FracChars(a.n % a.d, a.d, MaxFracDigits)))

\* ToString; an array is the join of its elements with ","
RECURSIVE ToString(_)
ToString(v) ==
  CASE v.t = "number" -> NumberToString(v)
    [] v.t = "boolean" -> (IF v.b THEN TrueChars ELSE FalseChars)
    [] v.t = "undefined" -> UndefinedChars
    [] v.t = "string" -> v.chars
    [] v.t = "object" -> ObjectChars
    [] v.t = "array" ->
         IF v.elems = <<>> THEN <<>>
         ELSE The({ (IF first.t = "undefined" THEN <<>> ELSE ToString(first)) \o
                    (IF rest.elems = <<>> THEN <<>> ELSE <<",">> \o ToString(rest))
                    : first \in {Head(v.elems)},
                      rest \in {Arr(v.ref, Tail(v.elems))} })

RECURSIVE Trim(_)
Trim(cs) ==
  IF cs = <<>> THEN cs
  ELSE IF Head(cs) = " " THEN The({ Trim(rest) : rest \in {Tail(cs)} })
  ELSE IF cs[Len(cs)] = " "
  THEN The({ Trim(rest) : rest \in {SubSeq(cs, 1, Len(cs) - 1)} })
  ELSE cs

RECURSIVE DigitsVal(_)
DigitsVal(cs) ==
  IF cs = <<>> THEN 0
  ELSE The({ DigitsVal(front) : front \in {SubSeq(cs, 1, Len(cs) - 1)} }) * 10
       + DigitVal(cs[Len(cs)])

RECURSIVE Pow10(_)
Pow10(k) == IF k = 0 THEN 1 ELSE 10 * The({ Pow10(j) : j \in {k - 1} })

\* StringToNumber, for decimal literals without an exponent
FirstDot(body) ==
  IF \E i \in 1..Len(body) : body[i] = "."
  THEN CHOOSE i \in 1..Len(body) : body[i] = "." /\ \A j \in 1..(i - 1) : body[j] # "."
  ELSE Len(body) + 1

\* a signless decimal literal: digits with at most one "." among them
DecimalToNumber(sg, body) ==
  The({ The({ IF /\ Len(int) + Len(frac) > 0
                 /\ \A i \in 1..Len(int) : IsDigit(int[i])
                 /\ \A i \in 1..Len(frac) : IsDigit(frac[i])
              THEN The({ Norm(sg, n, d) : n \in {DigitsVal(int \o frac)},
                                          d \in {Pow10(Len(frac))} })
              ELSE NaN
              : int \in {SubSeq(body, 1, p - 1)},
                frac \in {SubSeq(body, p + 1, Len(body))} })
        : p \in {FirstDot(body)} })

StringToNumber(chars) ==
  The({ IF cs = <<>> THEN Num(0)
        ELSE The({ IF body = InfinityChars THEN Infinity(sg)
                   ELSE DecimalToNumber(sg, body)
                   : sg \in {IF Head(cs) = "-" THEN -1 ELSE 1},
                     body \in {IF Head(cs) \in {"-", "+"} THEN Tail(cs) ELSE cs} })
        : cs \in {Trim(chars)} })

\* a < b on strings: by code units
RECURSIVE StrLess(_, _)
StrLess(a, b) ==
  IF b = <<>> THEN FALSE
  ELSE IF a = <<>> THEN TRUE
  ELSE IF Head(a) = Head(b)
  THEN The({ StrLess(ra, rb) : ra \in {Tail(a)}, rb \in {Tail(b)} })
  ELSE CharRank(Head(a)) < CharRank(Head(b))

\* ToPrimitive: an array or object becomes its string
ToPrimitive(v) == IF v.t \in {"array", "object"} THEN Str(ToString(v)) ELSE v

ToNumber(v) ==
  CASE v.t = "number" -> v
    [] v.t = "boolean" -> Num(IF v.b THEN 1 ELSE 0)
    [] v.t = "undefined" -> NaN
    [] OTHER -> The({ StringToNumber(chars) : chars \in {ToString(v)} })

ToBoolean(v) ==
  CASE v.t = "boolean" -> v.b
    [] v.t = "number" -> ~(IsNaN(v) \/ IsZero(v))
    [] v.t = "undefined" -> FALSE
    [] v.t = "string" -> v.chars # <<>>
    [] OTHER -> TRUE

\* typeof; no value the interpreter builds is a host function
TypeOf(v) == IF v.t \in {"array", "object"} THEN "object" ELSE v.t

\* Array.isArray
IsArray(v) == v.t = "array"

\* left === right
StrictEquals(a, b) ==
  /\ a.t = b.t
  /\ CASE a.t = "number" -> NumEq(a, b)
       [] a.t = "boolean" -> a.b = b.b
       [] a.t = "undefined" -> TRUE
       [] a.t = "string" -> a.chars = b.chars
       [] a.t = "array" -> a.ref = b.ref
       [] a.t = "object" -> a.node = b.node

\* left < right, after ToPrimitive of both
LessThan(a, b) ==
  The({ IF pa.t = "string" /\ pb.t = "string" THEN StrLess(pa.chars, pb.chars)
        ELSE The({ Less(na, nb) : na \in {ToNumber(pa)}, nb \in {ToNumber(pb)} })
        : pa \in {ToPrimitive(a)}, pb \in {ToPrimitive(b)} })

\* left <= right: not (right < left), and false when they do not compare
LessEq(a, b) ==
  The({ IF pa.t = "string" /\ pb.t = "string" THEN ~StrLess(pb.chars, pa.chars)
        ELSE The({ ~IsNaN(na) /\ ~IsNaN(nb) /\ ~Less(nb, na)
                   : na \in {ToNumber(pa)}, nb \in {ToNumber(pb)} })
        : pa \in {ToPrimitive(a)}, pb \in {ToPrimitive(b)} })

\* left + right: concatenation if either primitive is a string
Plus(a, b) ==
  The({ IF pa.t = "string" \/ pb.t = "string"
        THEN Str(ToString(pa) \o ToString(pb))
        ELSE The({ Add(na, nb) : na \in {ToNumber(pa)}, nb \in {ToNumber(pb)} })
        : pa \in {ToPrimitive(a)}, pb \in {ToPrimitive(b)} })

-----------------------------------------------------------------------------
(* The AST: one record per class of bella.ts, built as its constructor     *)
(* builds it.                                                              *)

Program(block) == [type |-> "Program", block |-> block]

Block(statements) == [type |-> "Block", statements |-> statements]

VariableDeclaration(id, expression) ==
  [type |-> "VariableDeclaration", id |-> id, expression |-> expression]

FunctionDeclaration(id, parameters, expression) ==
  [type |-> "FunctionDeclaration", id |-> id, parameters |-> parameters,
   expression |-> expression]

Assignment(id, expression) ==
  [type |-> "Assignment", id |-> id, expression |-> expression]

PrintStatement(expression) == [type |-> "PrintStatement", expression |-> expression]

WhileStatement(expression, block) ==
  [type |-> "WhileStatement", expression |-> expression, block |-> block]

Numeral(value) == [type |-> "Numeral", value |-> value]

BooleanLiteral(value) == [type |-> "BooleanLiteral", value |-> value]

Identifier(name) == [type |-> "Identifier", name |-> name]

UnaryExpression(operator, expression) ==
  [type |-> "UnaryExpression", operator |-> operator, expression |-> expression]

BinaryExpression(operator, left, right) ==
  [type |-> "BinaryExpression", operator |-> operator, left |-> left, right |-> right]

CallExpression(id, args) == [type |-> "CallExpression", id |-> id, args |-> args]

ConditionalExpression(test, consequent, alternate) ==
  [type |-> "ConditionalExpression", test |-> test, consequent |-> consequent,
   alternate |-> alternate]

ArrayLiteral(elements) == [type |-> "ArrayLiteral", elements |-> elements]

SubscriptExpression(array, index) ==
  [type |-> "SubscriptExpression", array |-> array, index |-> index]

-----------------------------------------------------------------------------
(* Expression.interpret().  An evaluation reads `mem` (the Map `memory`)   *)
(* and allocates arrays: `h` counts the arrays allocated so far, and gives *)
(* each new array its identity.  It ends by returning a value or by        *)
(* throwing an Error.                                                      *)

NoError == [message |-> ""]

Return(v, h) == [ok |-> TRUE, v |-> v, error |-> NoError, heap |-> h]

Throw(error, h) == [ok |-> FALSE, v |-> Undefined, error |-> error, heap |-> h]

\* memory.has(name)
Has(mem, name) == name \in DOMAIN mem

\* memory.set(name, value)
Set(mem, name, value) ==
  [k \in DOMAIN mem \cup {name} |-> IF k = name THEN value ELSE mem[k]]

\* arrayValue[indexValue] for a number index: the property named by the
\* index, which exists only for 0, 1, ..., length - 1
ElementAt(arrayValue, indexValue) ==
  IF /\ indexValue.d = 1
     /\ indexValue.s = 1 \/ indexValue.n = 0
     /\ indexValue.n < Len(arrayValue.elems)
  THEN arrayValue.elems[indexValue.n + 1]
  ELSE Undefined

RECURSIVE ExpressionInterpret(_, _, _)
RECURSIVE InterpretAll(_, _, _)

NumeralInterpret(e, mem, h) == Return(Num(e.value), h)

BooleanLiteralInterpret(e, mem, h) == Return(Bool(e.value), h)

IdentifierInterpret(e, mem, h) ==
  IF ~Has(mem, e.name)
  THEN Throw([message |-> "Variable ${this.name} not declared", name |-> e.name], h)
  ELSE Return(mem[e.name], h)

UnaryExpressionInterpret(e, mem, h) ==
  The({ IF ~value.ok THEN value
        ELSE CASE e.operator = "-" ->
                    The({ Return(Neg(n), value.heap) : n \in {ToNumber(value.v)} })
               [] e.operator = "!" -> Return(Bool(~ToBoolean(value.v)), value.heap)
               [] e.operator = "+" -> Return(ToNumber(value.v), value.heap)
               [] OTHER ->
                    Throw([message |-> "Unknown unary operator ${this.operator}",
                           operator |-> e.operator], value.heap)
        : value \in {ExpressionInterpret(e.expression, mem, h)} })

\* the switch of BinaryExpression.interpret on two evaluated operands
BinaryOperation(op, l, r, h) ==
  CASE op = "+" -> Return(Plus(l, r), h)
    [] op \in {"-", "*", "/", "%"} ->
         The({ CASE op = "-" -> Return(Sub(nl, nr), h)
                 [] op = "*" -> Return(Mul(nl, nr), h)
                 [] op = "/" -> Return(Div(nl, nr), h)
                 [] op = "%" -> Return(Mod(nl, nr), h)
               : nl \in {ToNumber(l)}, nr \in {ToNumber(r)} })
    [] op = "==" -> Return(Bool(StrictEquals(l, r)), h)
    [] op = "!=" -> Return(Bool(~StrictEquals(l, r)), h)
    [] op = "<" -> Return(Bool(LessThan(l, r)), h)
    [] op = ">" -> Return(Bool(LessThan(r, l)), h)
    [] op = "<=" -> Return(Bool(LessEq(l, r)), h)
    [] op = ">=" -> Return(Bool(LessEq(r, l)), h)
    [] op = "&&" -> Return(IF ToBoolean(l) THEN r ELSE l, h)
    [] op = "||" -> Return(IF ToBoolean(l) THEN l ELSE r, h)
    [] OTHER ->
         Throw([message |-> "Unknown binary operator ${this.operator}",
                operator |-> op], h)

\* both operands are evaluated, the left one first, before the operator is
\* looked at
BinaryExpressionInterpret(e, mem, h) ==
  The({ IF ~left.ok THEN left
        ELSE The({ IF ~right.ok THEN right
                   ELSE BinaryOperation(e.operator, left.v, right.v, right.heap)
                   : right \in {ExpressionInterpret(e.right, mem, left.heap)} })
        : left \in {ExpressionInterpret(e.left, mem, h)} })

\* The callee is whatever `memory` holds for the name; the call is made only
\* if typeof says "function".  The values of this interpreter are numbers,
\* booleans, strings, undefined, arrays and AST objects, of which none is a
\* host function, so the else branch (bella.ts 185-192) is never entered; it
\* is modelled up to the host call, which has no callee to model.
CallExpressionInterpret(e, mem, h) ==
  The({ IF ~value.ok THEN value
        ELSE IF TypeOf(value.v) # "function"
        THEN Throw([message |-> "Cannot call ${value} because it is not a function",
                    value |-> ToString(value.v)], value.heap)
        ELSE The({ IF ~interpretedArgs.ok
                   THEN Throw(interpretedArgs.error, interpretedArgs.heap)
                   ELSE IF \E i \in 1..Len(interpretedArgs.vs) :
                             TypeOf(interpretedArgs.vs[i]) # "number"
                   THEN Throw([message |-> "Argument ${i + 1} is not a number",
                               i |-> CHOOSE i \in 1..Len(interpretedArgs.vs) :
                                       /\ TypeOf(interpretedArgs.vs[i]) # "number"
                                       /\ \A j \in 1..(i - 1) :
                                            TypeOf(interpretedArgs.vs[j]) = "number"],
                              interpretedArgs.heap)
                   ELSE Return(Undefined, interpretedArgs.heap)
                   : interpretedArgs \in {InterpretAll(e.args, mem, value.heap)} })
        : value \in {IdentifierInterpret(e.id, mem, h)} })

\* test ? consequent : alternate evaluates the test, then one branch
\* a conditional that evaluated both branches before choosing between them
ConditionalExpressionEvaluatesBoth(e, mem, h) ==
  The({ IF ~test.ok THEN test
        ELSE The({ IF ~consequent.ok THEN consequent
                   ELSE The({ IF ~alternate.ok THEN alternate
                              ELSE IF ToBoolean(test.v)
                              THEN Return(consequent.v, alternate.heap)
                              ELSE alternate
                              : alternate \in {ExpressionInterpret(e.alternate, mem,
                                                                   consequent.heap)} })
                   : consequent \in {ExpressionInterpret(e.consequent, mem, test.heap)} })
        : test \in {ExpressionInterpret(e.test, mem, h)} })

ConditionalExpressionInterpret(e, mem, h) ==
  The({ IF ~test.ok THEN test
        ELSE IF ToBoolean(test.v)
        THEN ExpressionInterpret(e.consequent, mem, test.heap)
        ELSE ExpressionInterpret(e.alternate, mem, test.heap)
        : test \in {ExpressionInterpret(e.test, mem, h)} })

ArrayLiteralInterpret(e, mem, h) ==
  The({ IF ~elements.ok THEN Throw(elements.error, elements.heap)
        ELSE Return(Arr([heap |-> elements.heap], elements.vs), elements.heap + 1)
        : elements \in {InterpretAll(e.elements, mem, h)} })

SubscriptExpressionInterpret(e, mem, h) ==
  The({ IF ~arrayValue.ok THEN arrayValue
        ELSE The({ IF ~indexValue.ok THEN indexValue
                   ELSE IF IsArray(arrayValue.v) /\ TypeOf(indexValue.v) = "number"
                   THEN Return(ElementAt(arrayValue.v, indexValue.v), indexValue.heap)
                   ELSE Throw([message |-> "SubscriptExpression: invalid expression"],
                              indexValue.heap)
                   : indexValue \in {ExpressionInterpret(e.index, mem, arrayValue.heap)} })
        : arrayValue \in {ExpressionInterpret(e.array, mem, h)} })

\* the dynamic dispatch of expression.interpret()
ExpressionInterpret(e, mem, h) ==
  CASE e.type = "Numeral" -> NumeralInterpret(e, mem, h)
    [] e.type = "BooleanLiteral" -> BooleanLiteralInterpret(e, mem, h)
    [] e.type = "Identifier" -> IdentifierInterpret(e, mem, h)
    [] e.type = "UnaryExpression" -> UnaryExpressionInterpret(e, mem, h)
    [] e.type = "BinaryExpression" -> BinaryExpressionInterpret(e, mem, h)
    [] e.type = "CallExpression" -> CallExpressionInterpret(e, mem, h)
    [] e.type = "ConditionalExpression" -> ConditionalExpressionInterpret(e, mem, h)
    [] e.type = "ArrayLiteral" -> ArrayLiteralInterpret(e, mem, h)
    [] e.type = "SubscriptExpression" -> SubscriptExpressionInterpret(e, mem, h)

\* expressions.map((e) => e.interpret()): left to right, stopping at the
\* first that throws
InterpretAll(es, mem, h) ==
  IF es = <<>> THEN [ok |-> TRUE, vs |-> <<>>, error |-> NoError, heap |-> h]
  ELSE The({ IF ~first.ok
             THEN [ok |-> FALSE, vs |-> <<>>, error |-> first.error, heap |-> first.heap]
             ELSE The({ IF ~rest.ok THEN rest
                        ELSE [rest EXCEPT !.vs = <<first.v>> \o rest.vs]
                        : rest \in {InterpretAll(Tail(es), mem, first.heap)} })
             : first \in {ExpressionInterpret(Head(es), mem, h)} })

-----------------------------------------------------------------------------
(* The programs handed to interpret().                                     *)

Let(name, e) == VariableDeclaration(Identifier(name), e)

Show(e) == PrintStatement(e)

Var(name) == Identifier(name)

Bin(op, l, r) == BinaryExpression(op, l, r)

Prog(statements) == Program(Block(statements))

\* the sample program of bella.ts
sample ==
  Prog(<<Show(UnaryExpression("-", Numeral(5))),
         Show(Bin("*", Numeral(5), Numeral(8))),
         Show(ConditionalExpression(BooleanLiteral(TRUE), Numeral(5), Numeral(8))),
         Show(ArrayLiteral(<<Numeral(1), Numeral(2), Numeral(3)>>)),
         Show(SubscriptExpression(ArrayLiteral(<<Numeral(1), Numeral(2), Numeral(3)>>),
                                   Numeral(1)))>>)

\* func fact n = n <= 1 ? 1 : n * fact(n - 1)
FactDeclaration ==
  FunctionDeclaration(Var("fact"), <<Var("n")>>,
    ConditionalExpression(Bin("<=", Var("n"), Numeral(1)),
                          Numeral(1),
                          Bin("*", Var("n"),
                              CallExpression(Var("fact"),
                                             <<Bin("-", Var("n"), Numeral(1))>>))))

\* func fact n = ...; let r = fact(k)
FactProgram(k) ==
  Prog(<<FactDeclaration, Let("r", CallExpression(Var("fact"), <<Numeral(k)>>))>>)

\* let i = 0; while i < n { print i; i = i + 1 }
LoopProgram(n) ==
  Prog(<<Let("i", Numeral(0)),
         WhileStatement(Bin("<", Var("i"), Numeral(n)),
                        Block(<<Show(Var("i")),
                                Assignment(Var("i"), Bin("+", Var("i"), Numeral(1)))>>))>>)

\* expressions whose evaluation throws in every state: no program declares
\* "y", a numeral is not an array, and nothing is callable
FailingExpressions ==
  { Var("y"),
    SubscriptExpression(Numeral(1), Numeral(0)),
    CallExpression(Var("y"), <<>>) }

\* print (false && e), print (true || e), print (true ? 5 : e), print (false ? e : 8)
ShortCircuitPrograms ==
  UNION { { Prog(<<Show(Bin("&&", BooleanLiteral(FALSE), e))>>),
            Prog(<<Show(Bin("||", BooleanLiteral(TRUE), e))>>),
            Prog(<<Show(ConditionalExpression(BooleanLiteral(TRUE), Numeral(5), e))>>),
            Prog(<<Show(ConditionalExpression(BooleanLiteral(FALSE), e, Numeral(8)))>>) }
          : e \in FailingExpressions }

\* let x = 5; print x
DeclareX == Prog(<<Let("x", Numeral(5)), Show(Var("x"))>>)

\* print x
ReadX == Prog(<<Show(Var("x"))>>)

\* declarations and assignments in the one namespace
NamespacePrograms ==
  { Prog(<<Let("x", Numeral(5)), Let("x", Numeral(6))>>),
    Prog(<<Let("x", Numeral(5)),
           FunctionDeclaration(Var("x"), <<Var("y")>>, Var("y"))>>),
    Prog(<<FunctionDeclaration(Var("f"), <<Var("a")>>, Var("a")),
           Let("f", Numeral(1))>>),
    Prog(<<FunctionDeclaration(Var("f"), <<Var("a")>>, Var("a")),
           FunctionDeclaration(Var("f"), <<>>, Numeral(2))>>),
    Prog(<<Assignment(Var("y"), Numeral(5))>>),
    Prog(<<Let("x", Numeral(1)),
           Assignment(Var("x"), Bin("+", Var("x"), Numeral(1))),
           Assignment(Var("z"), Numeral(3))>>),
    Prog(<<Let("x", Var("y"))>>),
    DeclareX,
    ReadX,
    Prog(<<FunctionDeclaration(Var("f"), <<Var("a")>>, Var("a")),
           Let("g", Var("f")),
           Show(Bin("==", Var("g"), Var("f")))>>),
    Prog(<<FunctionDeclaration(Var("f"), <<Var("a")>>, Var("a")),
           Assignment(Var("f"), Numeral(5))>>),
    Prog(<<Let("x", Numeral(1)),
           FunctionDeclaration(Var("f"), <<Var("a")>>, Var("a")),
           Assignment(Var("x"), Var("f")),
           Show(SubscriptExpression(SubscriptExpression(Var("x"), Numeral(0)),
                                     Numeral(0)))>>) }

\* print [1, 2, 3][e] for an index inside, at and beyond the ends, and
\* between two positions
SubscriptPrograms ==
  { Prog(<<Show(SubscriptExpression(
                   ArrayLiteral(<<Numeral(1), Numeral(2), Numeral(3)>>), e))>>)
    : e \in { Numeral(0), Numeral(2), Numeral(3), Numeral(5),
              UnaryExpression("-", Numeral(1)),
              Bin("/", Numeral(1), Numeral(2)),
              BooleanLiteral(TRUE) } }

ArithmeticOperators == {"+", "-", "*", "/", "%", "<", ">", "<=", ">="}

\* each arithmetic and comparison operator on two numbers, on a boolean and a
\* number, and on a number and an array
OperatorPrograms ==
  { Prog(<<Show(Bin(op, Numeral(7), Numeral(2))),
           Show(Bin(op, BooleanLiteral(TRUE), Numeral(1))),
           Show(Bin(op, Numeral(1), ArrayLiteral(<<Numeral(2)>>)))>>)
    : op \in ArithmeticOperators }

\* the unary operators on operands of every kind, the equalities, and the
\* logical operators on values that are not booleans
CoercionPrograms ==
  { Prog(<<Show(UnaryExpression(op, Numeral(5))),
           Show(UnaryExpression(op, BooleanLiteral(TRUE))),
           Show(UnaryExpression(op, ArrayLiteral(<<>>))),
           Show(UnaryExpression(op, Bin("/", Numeral(0), Numeral(0))))>>)
    : op \in {"-", "!", "+"} }
  \cup
  { Prog(<<Let("a", ArrayLiteral(<<Numeral(1)>>)),
           Show(Bin("==", Var("a"), Var("a"))),
           Show(Bin("==", Var("a"), ArrayLiteral(<<Numeral(1)>>))),
           Show(Bin("!=", Numeral(1), BooleanLiteral(TRUE))),
           Show(Bin("==", Bin("/", Numeral(1), Numeral(0)),
                           Bin("/", Numeral(2), Numeral(0))))>>),
    Prog(<<Show(Bin("&&", Numeral(1), Numeral(2))),
           Show(Bin("||", Numeral(0), ArrayLiteral(<<>>))),
           Show(Bin("&&", BooleanLiteral(TRUE), BooleanLiteral(FALSE))),
           Show(ConditionalExpression(Numeral(0), Numeral(1), Numeral(2))),
           Show(ConditionalExpression(Bin("<", Numeral(1), Numeral(2)),
                                       Numeral(1), Var("y")))>>),
    Prog(<<Let("j", Numeral(2)),
           WhileStatement(Var("j"),
                          Block(<<Assignment(Var("j"), Bin("-", Var("j"), Numeral(1)))>>)),
           Show(UnaryExpression("~", Var("j")))>>),
    Prog(<<Show(Bin("^", Numeral(1), Numeral(2)))>>),
    Prog(<<>>) }

Programs ==
  {sample}
  \cup { FactProgram(k) : k \in 0..MaxK }
  \cup { LoopProgram(n) : n \in 0..MaxN }
  \cup ShortCircuitPrograms
  \cup NamespacePrograms
  \cup SubscriptPrograms
  \cup OperatorPrograms
  \cup CoercionPrograms

-----------------------------------------------------------------------------
(* The interpreter's state.  An action evaluates its expression once: the  *)
(* result is bound by \E over the singleton set holding it.                *)

VARIABLES
  memory,   \* the Map `memory`: name -> Value
  heap,     \* the number of arrays allocated so far
  output,   \* the values handed to console.log, in order
  prog,     \* the argument of the current (or last) call of interpret()
  cont,     \* the statements the running call has still to execute
  status,   \* "idle", "running", "done" (interpret returned) or "failed" (it threw)
  error,    \* the Error the last call threw, NoError if none
  runs      \* the number of calls of interpret() so far

vars == <<memory, heap, output, prog, cont, status, error, runs>>

NoProgram == [type |-> "none"]

Init ==
  /\ memory = [k \in {} |-> Undefined]
  /\ heap = 0
  /\ output = <<>>
  /\ prog = NoProgram
  /\ cont = <<>>
  /\ status = "idle"
  /\ error = NoError
  /\ runs = 0

\* the statement being executed and the ones after it
Current == Head(cont)

Executing(type) == status = "running" /\ Current.type = type

\* the statement returns: the enclosing loops go on to the next one, and
\* interpret() returns after the last
Proceed(rest) ==
  /\ cont' = rest
  /\ status' = IF rest = <<>> THEN "done" ELSE "running"
  /\ error' = NoError

\* the statement throws: nothing catches, interpret() throws
Abort(err) ==
  /\ cont' = <<>>
  /\ status' = "failed"
  /\ error' = err

\* function interpret(p): p.interpret() runs the block's statements in order
interpret(p) ==
  /\ status # "running"
  /\ runs < MaxRuns
  /\ runs' = runs + 1
  /\ prog' = p
  /\ Proceed(p.block.statements)
  /\ UNCHANGED <<memory, heap, output>>

\* a declaration that did not look whether the name is taken
VariableDeclarationOverwrites ==
  /\ Executing("VariableDeclaration")
  /\ \E s \in {Current} :
     \E value \in {ExpressionInterpret(s.expression, memory, heap)} :
         IF ~value.ok
         THEN /\ Abort(value.error)
              /\ heap' = value.heap
              /\ UNCHANGED memory
         ELSE /\ memory' = Set(memory, s.id.name, value.v)
              /\ heap' = value.heap
              /\ Proceed(Tail(cont))
  /\ UNCHANGED <<output, prog, runs>>

VariableDeclarationInterpret ==
  /\ Executing("VariableDeclaration")
  /\ \E s \in {Current} :
     \E value \in {ExpressionInterpret(s.expression, memory, heap)} :
         IF Has(memory, s.id.name)
         THEN /\ Abort([message |-> "Variable already declared"])
              /\ UNCHANGED <<memory, heap>>
         ELSE IF ~value.ok
         THEN /\ Abort(value.error)
              /\ heap' = value.heap
              /\ UNCHANGED memory
         ELSE /\ memory' = Set(memory, s.id.name, value.v)
              /\ heap' = value.heap
              /\ Proceed(Tail(cont))
  /\ UNCHANGED <<output, prog, runs>>

\* the descriptor [this.parameters, this.expression]: a new array holding the
\* node's own parameter array and its body
Descriptor(s, h) ==
  Arr([heap |-> h],
      <<Arr([node |-> s], [i \in 1..Len(s.parameters) |-> Obj(s.parameters[i])]),
        Obj(s.expression)>>)

FunctionDeclarationInterpret ==
  /\ Executing("FunctionDeclaration")
  /\ LET s == Current
     IN  IF Has(memory, s.id.name)
         THEN /\ Abort([message |-> "Function already declared"])
              /\ UNCHANGED <<memory, heap>>
         ELSE /\ memory' = Set(memory, s.id.name, Descriptor(s, heap))
              /\ heap' = heap + 1
              /\ Proceed(Tail(cont))
  /\ UNCHANGED <<output, prog, runs>>

\* an assignment that did not look whether the name is declared
AssignmentCreatesBinding ==
  /\ Executing("Assignment")
  /\ \E s \in {Current} :
     \E value \in {ExpressionInterpret(s.expression, memory, heap)} :
         IF ~value.ok
         THEN /\ Abort(value.error)
              /\ heap' = value.heap
              /\ UNCHANGED memory
         ELSE /\ memory' = Set(memory, s.id.name, value.v)
              /\ heap' = value.heap
              /\ Proceed(Tail(cont))
  /\ UNCHANGED <<output, prog, runs>>

AssignmentInterpret ==
  /\ Executing("Assignment")
  /\ \E s \in {Current} :
     \E value \in {ExpressionInterpret(s.expression, memory, heap)} :
         IF ~Has(memory, s.id.name)
         THEN /\ Abort([message |-> "Variable not declared"])
              /\ UNCHANGED <<memory, heap>>
         ELSE IF ~value.ok
         THEN /\ Abort(value.error)
              /\ heap' = value.heap
              /\ UNCHANGED memory
         ELSE /\ memory' = Set(memory, s.id.name, value.v)
              /\ heap' = value.heap
              /\ Proceed(Tail(cont))
  /\ UNCHANGED <<output, prog, runs>>

PrintStatementInterpret ==
  /\ Executing("PrintStatement")
  /\ \E value \in {ExpressionInterpret(Current.expression, memory, heap)} :
         /\ heap' = value.heap
         /\ IF ~value.ok
            THEN Abort(value.error) /\ UNCHANGED output
            ELSE output' = Append(output, value.v) /\ Proceed(Tail(cont))
  /\ UNCHANGED <<memory, prog, runs>>

\* an `if` in the place of the `while`: the body runs once and the test is
\* not evaluated again
WhileStatementRunsBodyOnce ==
  /\ Executing("WhileStatement")
  /\ \E s \in {Current} :
     \E test \in {ExpressionInterpret(s.expression, memory, heap)} :
         /\ heap' = test.heap
         /\ IF ~test.ok THEN Abort(test.error)
            ELSE IF ToBoolean(test.v) THEN Proceed(s.block.statements \o Tail(cont))
            ELSE Proceed(Tail(cont))
  /\ UNCHANGED <<memory, output, prog, runs>>

\* one turn of `while (this.expression.interpret()) this.block.interpret()`:
\* the test is evaluated; if it is truthy the body's statements run next and
\* then the loop again, and if not the loop returns
WhileStatementInterpret ==
  /\ Executing("WhileStatement")
  /\ \E s \in {Current} :
     \E test \in {ExpressionInterpret(s.expression, memory, heap)} :
         /\ heap' = test.heap
         /\ IF ~test.ok THEN Abort(test.error)
            ELSE IF ToBoolean(test.v) THEN Proceed(s.block.statements \o cont)
            ELSE Proceed(Tail(cont))
  /\ UNCHANGED <<memory, output, prog, runs>>

Next ==
  \/ \E p \in Programs : interpret(p)
  \/ VariableDeclarationInterpret
  \/ FunctionDeclarationInterpret
  \/ AssignmentInterpret
  \/ PrintStatementInterpret
  \/ WhileStatementInterpret

Spec == Init /\ [][Next]_vars

\* A call of interpret() runs to its end: evaluation is synchronous, and
\* nothing but the statements' own execution decides when it stops.
Step ==
  \/ VariableDeclarationInterpret
  \/ FunctionDeclarationInterpret
  \/ AssignmentInterpret
  \/ PrintStatementInterpret
  \/ WhileStatementInterpret

FairSpec == Spec /\ WF_vars(Step)

-----------------------------------------------------------------------------
(* The vocabulary of the properties.  The source throws plain Errors; the  *)
(* kinds of failure are told apart by their messages.                      *)

DuplicateDeclaration == {"Variable already declared", "Function already declared"}

UndeclaredIdentifier == {"Variable not declared", "Variable ${this.name} not declared"}

Declarations == {"VariableDeclaration", "FunctionDeclaration"}

\* a value of the shape FunctionDeclaration stores: [Identifier[], Expression]
IsDescriptor(v) ==
  /\ IsArray(v)
  /\ Len(v.elems) = 2
  /\ IsArray(v.elems[1])
  /\ v.elems[2].t = "object"

RECURSIVE Factorial(_)
Factorial(k) == IF k <= 1 THEN 1 ELSE k * Factorial(k - 1)

\* <<0, 1, ..., n - 1>> as values
Counting(n) == [k \in 1..n |-> Num(k - 1)]

\* the last n elements of a sequence
Last(seq, n) == SubSeq(seq, Len(seq) - n + 1, Len(seq))

Ended == status \in {"done", "failed"}

-----------------------------------------------------------------------------
(* C1.  After `func fact n = n <= 1 ? 1 : n * fact(n - 1)` has executed, a  *)
(* call fact(k) returns k!: the program `func fact ...; let r = fact(k)`,  *)
(* interpreted first in a process, ends normally with r = k!, for every k  *)
(* in 0 .. MaxK.                                                           *)
C1_RecursiveCallReturnsFactorial ==
  \A k \in 0..MaxK :
    (prog = FactProgram(k) /\ runs = 1 /\ Ended) =>
      /\ status = "done"
      /\ Has(memory, "r")
      /\ memory["r"] = Num(Factorial(k))

(* C2.  && and || short-circuit: when the left operand of && evaluates to  *)
(* false the expression yields false, and when the left operand of ||      *)
(* evaluates to true it yields true, without an error, whatever the right  *)
(* operand is.                                                             *)
C2_LogicalOperatorsShortCircuit ==
  (Executing("PrintStatement") /\ Current.expression.type = "BinaryExpression") =>
    \E e \in {Current.expression} :
    \E left \in {ExpressionInterpret(e.left, memory, heap)} :
    \E whole \in {ExpressionInterpret(e, memory, heap)} :
      /\ (e.operator = "&&" /\ left.ok /\ left.v = Bool(FALSE)) =>
           (whole.ok /\ whole.v = Bool(FALSE))
      /\ (e.operator = "||" /\ left.ok /\ left.v = Bool(TRUE)) =>
           (whole.ok /\ whole.v = Bool(TRUE))

(* C3.  Variables and functions share one namespace: a let or func whose   *)
(* name is already bound (by either kind) fails with DuplicateDeclaration  *)
(* and leaves memory as it was; a func whose name is unbound binds it to   *)
(* its descriptor, and a let whose name is unbound binds it to the value   *)
(* of its expression (when the expression has one), changing no other      *)
(* binding.                                                                *)
C3_Step ==
  (status = "running" /\ Current.type \in Declarations) =>
    \E s \in {Current} :
    \E value \in {ExpressionInterpret(s.expression, memory, heap)} :
      IF s.id.name \in DOMAIN memory
      THEN /\ status' = "failed"
           /\ error'.message \in DuplicateDeclaration
           /\ memory' = memory
      ELSE IF s.type = "FunctionDeclaration"
      THEN /\ status' # "failed"
           /\ DOMAIN memory' = DOMAIN memory \cup {s.id.name}
           /\ IsDescriptor(memory'[s.id.name])
           /\ memory'[s.id.name].elems[2] = Obj(s.expression)
           /\ \A k \in DOMAIN memory : memory'[k] = memory[k]
      ELSE value.ok =>
           /\ status' # "failed"
           /\ DOMAIN memory' = DOMAIN memory \cup {s.id.name}
           /\ memory'[s.id.name] = value.v
           /\ \A k \in DOMAIN memory : memory'[k] = memory[k]

C3_SharedNamespace == [][C3_Step]_vars

\* `let x = 5; func x y = y` has failed on the func, and x is still 5
C3_Witness ==
  /\ prog = Prog(<<Let("x", Numeral(5)),
                   FunctionDeclaration(Var("x"), <<Var("y")>>, Var("y"))>>)
  /\ status = "failed"
  /\ error.message = "Function already declared"
  /\ memory["x"] = Num(5)

(* C4.  An assignment to an unbound name fails with UndeclaredIdentifier   *)
(* and binds nothing; the set of bound names is empty at first and grows   *)
(* only by the name of a let or func that succeeds, so it is exactly the   *)
(* set of names successful declarations introduced.                        *)
C4_Step ==
  /\ (Executing("Assignment") /\ Current.id.name \notin DOMAIN memory) =>
       /\ status' = "failed"
       /\ error'.message \in UndeclaredIdentifier
       /\ memory' = memory
  /\ (DOMAIN memory' # DOMAIN memory) =>
       /\ status = "running"
       /\ Current.type \in Declarations
       /\ status' # "failed"
       /\ DOMAIN memory' = DOMAIN memory \cup {Current.id.name}

C4_OnlyDeclarationsBind ==
  /\ [](runs = 0 => DOMAIN memory = {})
  /\ [][C4_Step]_vars

\* `y = 5` with no `let y` has failed, and y is not bound
C4_Witness ==
  /\ prog = Prog(<<Assignment(Var("y"), Numeral(5))>>)
  /\ status = "failed"
  /\ error.message = "Variable not declared"
  /\ "y" \notin DOMAIN memory

(* C5.  A subscript of an array of length L by a number fails when the     *)
(* number is outside [0, L), and yields the element at that position when  *)
(* it is one of 0, ..., L - 1.                                             *)
C5_SubscriptChecksRange ==
  (Executing("PrintStatement") /\ Current.expression.type = "SubscriptExpression") =>
    \E e \in {Current.expression} :
    \E arrayValue \in {ExpressionInterpret(e.array, memory, heap)} :
    \E indexValue \in {ExpressionInterpret(e.index, memory, arrayValue.heap)} :
    \E whole \in {ExpressionInterpret(e, memory, heap)} :
      (arrayValue.ok /\ indexValue.ok /\ IsArray(arrayValue.v) /\ IsNumber(indexValue.v)) =>
        \E i \in {indexValue.v} : \E L \in {Len(arrayValue.v.elems)} :
          /\ (Less(i, Num(0)) \/ ~Less(i, Num(L))) => ~whole.ok
          /\ (i.d = 1 /\ ~Less(i, Num(0)) /\ Less(i, Num(L))) =>
               (whole.ok /\ whole.v = arrayValue.v.elems[i.n + 1])

(* C6.  Every call of interpret() starts from an empty namespace: the      *)
(* program `let x = 5; print x` ends normally whenever it is run, and the  *)
(* program `print x` fails with UndeclaredIdentifier whenever it is run,   *)
(* whatever ran before.                                                    *)
C6_FreshNamespacePerRun ==
  /\ (prog = DeclareX /\ Ended) => status = "done"
  /\ (prog = ReadX /\ Ended) =>
       (status = "failed" /\ error.message \in UndeclaredIdentifier)

(* C7.  Variables hold no functions: a let or an assignment that succeeds  *)
(* never leaves a function descriptor bound to its name, and an assignment *)
(* to a name that holds a function descriptor changes nothing.             *)
C7_Step ==
  /\ (status = "running" /\ Current.type \in {"VariableDeclaration", "Assignment"}
        /\ status' # "failed") =>
       ~IsDescriptor(memory'[Current.id.name])
  /\ (Executing("Assignment") /\ Current.id.name \in DOMAIN memory
        /\ IsDescriptor(memory[Current.id.name])) =>
       memory' = memory

C7_VariablesHoldNoFunctions == [][C7_Step]_vars

(* C8.  Operators check the kinds of their operands: - and + applied to a  *)
(* value that is not a number, ! applied to a value that is not a boolean, *)
(* and + - * / % < > <= >= applied with an operand that is not a number    *)
(* fail instead of yielding a value.                                       *)
C8_OperatorsCheckOperandKinds ==
  /\ (Executing("PrintStatement") /\ Current.expression.type = "UnaryExpression") =>
       \E e \in {Current.expression} :
       \E operand \in {ExpressionInterpret(e.expression, memory, heap)} :
       \E whole \in {ExpressionInterpret(e, memory, heap)} :
         /\ (e.operator \in {"-", "+"} /\ operand.ok /\ ~IsNumber(operand.v)) => ~whole.ok
         /\ (e.operator = "!" /\ operand.ok /\ ~IsBoolean(operand.v)) => ~whole.ok
  /\ (Executing("PrintStatement") /\ Current.expression.type = "BinaryExpression") =>
       \E e \in {Current.expression} :
       \E left \in {ExpressionInterpret(e.left, memory, heap)} :
       \E right \in {ExpressionInterpret(e.right, memory, left.heap)} :
       \E whole \in {ExpressionInterpret(e, memory, heap)} :
         (/\ e.operator \in ArithmeticOperators
          /\ left.ok
          /\ right.ok
          /\ ~IsNumber(left.v) \/ ~IsNumber(right.v)) => ~whole.ok

(* C9.  A while loop tests before every iteration and runs its body once   *)
(* per true test: for n in 0 .. MaxN, a run of                             *)
(* `let i = 0; while i < n { print i; i = i + 1 }` that has printed m      *)
(* values has printed 0, ..., m - 1, with m <= n; it always ends; when it  *)
(* ends normally it has printed exactly 0, ..., n - 1 and i = n; and it    *)
(* ends normally when it is the first program the process interprets.      *)
C9_Safe ==
  \A n \in 0..MaxN :
    (prog = LoopProgram(n) /\ runs = 1) =>
      /\ status # "failed"
      /\ Len(output) <= n
      /\ output = Counting(Len(output))
      /\ status = "done" => (output = Counting(n) /\ memory["i"] = Num(n))

C9_SafeAnyRun ==
  \A n \in 0..MaxN :
    (prog = LoopProgram(n) /\ status = "done") =>
      /\ Len(output) >= n
      /\ Last(output, n) = Counting(n)
      /\ memory["i"] = Num(n)

C9_WhileLoopCountsAndTerminates ==
  /\ [](C9_Safe /\ C9_SafeAnyRun)
  /\ (status = "running" /\ \E n \in 0..MaxN : prog = LoopProgram(n)) ~> Ended

\* the longest loop has run to its end
C9_Witness ==
  /\ prog = LoopProgram(MaxN)
  /\ status = "done"
  /\ output = Counting(MaxN)
  /\ memory["i"] = Num(MaxN)

(* C10.  A conditional whose test is a boolean evaluates one branch only:  *)
(* `print (t ? a : b)` prints the value of a when t is true and of b when  *)
(* t is false, and fails exactly when that branch fails, whether or not    *)
(* the other branch could be evaluated.                                    *)
C10_Step ==
  (Executing("PrintStatement") /\ Current.expression.type = "ConditionalExpression") =>
    \E e \in {Current.expression} :
    \E test \in {ExpressionInterpret(e.test, memory, heap)} :
      (test.ok /\ IsBoolean(test.v)) =>
        \E taken \in {ExpressionInterpret(IF test.v.b THEN e.consequent ELSE e.alternate,
                                          memory, test.heap)} :
          IF taken.ok
          THEN status' # "failed" /\ output' = Append(output, taken.v)
          ELSE status' = "failed" /\ error' = taken.error /\ output' = output

C10_OnlyTakenBranchEvaluated == [][C10_Step]_vars

\* `print (false ? y : 8)`, whose untaken branch reads the undeclared y, has
\* printed 8
C10_Witness ==
  /\ prog = Prog(<<Show(ConditionalExpression(BooleanLiteral(FALSE), Var("y"),
                                               Numeral(8)))>>)
  /\ runs = 1
  /\ status = "done"
  /\ output = <<Num(8)>>

====
